---- MODULE Spec2Model ----
(***************************************************************************)
(* Model of the SiFive Freedom GPIO driver, drivers/gpio/gpio_sifive.c.    *)
(*                                                                         *)
(* The memory-mapped register block (struct gpio_sifive_t) is a record of  *)
(* bit-vectors; a bit-vector is the set of the pin numbers whose bit is 1. *)
(* BIT(pin) is {pin}; reg |= m is reg \cup m; reg &= ~m is reg \ m;        *)
(* reg & m is reg \cap m.                                                  *)
(***************************************************************************)
EXTENDS Integers, FiniteSets, Sequences, TLC

(* Number of pins of the modelled controller (SIFIVE_PINMUX_PINS, 32 on    *)
(* the SoC; the model keeps a slice of the register width).                *)
PIN_COUNT == 2

(* Largest value handed to gpio_sifive_write (values 0 .. MaxValue).       *)
MaxValue == 2

(* Number of callback structures (struct gpio_callback) the callers own.   *)
NumHandlers == 2

(* Interrupt numbering, gpio_sifive_config0: the PLIC lines follow the     *)
(* RISCV_MAX_GENERIC_IRQ core-local lines; the first GPIO line is          *)
(* DT_SIFIVE_GPIO0_0_IRQ_0 of the PLIC.                                    *)
RISCV_MAX_GENERIC_IRQ == 11
DT_SIFIVE_GPIO0_0_IRQ_0 == 7
gpio_irq_base == RISCV_MAX_GENERIC_IRQ + DT_SIFIVE_GPIO0_0_IRQ_0

Pins == 0 .. PIN_COUNT - 1
(* u32_t pin arguments a caller may pass: the valid pins and one beyond.   *)
PinArgs == 0 .. PIN_COUNT

GPIO_ACCESS_BY_PIN == "GPIO_ACCESS_BY_PIN"
GPIO_ACCESS_BY_PORT == "GPIO_ACCESS_BY_PORT"
AccessOps == {GPIO_ACCESS_BY_PIN, GPIO_ACCESS_BY_PORT}

(* Return values of the driver API.                                        *)
ESUCCESS == "0"
EINVAL == "-EINVAL"
ENOTSUP == "-ENOTSUP"

GPIO_PUD_NORMAL == "GPIO_PUD_NORMAL"
GPIO_PUD_PULL_UP == "GPIO_PUD_PULL_UP"
GPIO_PUD_PULL_DOWN == "GPIO_PUD_PULL_DOWN"

(* The flags argument of gpio_sifive_config, one field per flag the code   *)
(* tests; GPIO_PUD is the two-bit field selected by GPIO_PUD_MASK.         *)
Flags ==
  [GPIO_DIR_OUT : BOOLEAN, GPIO_POL_INV : BOOLEAN,
   GPIO_PUD : {GPIO_PUD_NORMAL, GPIO_PUD_PULL_UP, GPIO_PUD_PULL_DOWN},
   GPIO_INT : BOOLEAN, GPIO_INT_EDGE : BOOLEAN,
   GPIO_INT_DOUBLE_EDGE : BOOLEAN, GPIO_INT_ACTIVE_HIGH : BOOLEAN]

(* flags == 0: GPIO_DIR_IN | GPIO_POL_NORMAL | GPIO_PUD_NORMAL, no         *)
(* interrupt, GPIO_INT_LEVEL | GPIO_INT_ACTIVE_LOW.                        *)
NoFlags ==
  [GPIO_DIR_OUT |-> FALSE, GPIO_POL_INV |-> FALSE, GPIO_PUD |-> GPIO_PUD_NORMAL,
   GPIO_INT |-> FALSE, GPIO_INT_EDGE |-> FALSE,
   GPIO_INT_DOUBLE_EDGE |-> FALSE, GPIO_INT_ACTIVE_HIGH |-> FALSE]

VARIABLES
  gpio,         \* the register block, struct gpio_sifive_t
  irq_enabled,  \* the lines unmasked at the PLIC
  cb,           \* data->cb, the list of registered callbacks
  last,         \* the last call: its arguments and what it returned
  isr,          \* the frame of gpio_sifive_irq_handler while it runs
  task          \* the frame of a configure or write call while it runs

vars == <<gpio, irq_enabled, cb, last, isr, task>>

(* ---------------------------------------------------------------------- *)
(* Bit operations                                                          *)
(* ---------------------------------------------------------------------- *)
BIT(pin) == {pin}
SetBits(reg, mask) == reg \cup mask
ClearBits(reg, mask) == reg \ mask
TestBits(reg, mask) == (reg \cap mask) # {}

(* The register block with every register 0.                               *)
ZeroRegs ==
  [in_val |-> {}, in_en |-> {}, out_en |-> {}, out_val |-> {}, pue |-> {},
   ds |-> {}, rise_ie |-> {}, rise_ip |-> {}, fall_ie |-> {}, fall_ip |-> {},
   high_ie |-> {}, high_ip |-> {}, low_ie |-> {}, low_ip |-> {},
   iof_en |-> {}, iof_sel |-> {}, invert |-> {}]

(* ---------------------------------------------------------------------- *)
(* gpio_sifive_config                                                      *)
(* ---------------------------------------------------------------------- *)

(* A direction branch that leaves the opposite enable bit as it was.       *)
ConfigDirection_KeepOther(g, pin, flags) ==
  IF flags.GPIO_DIR_OUT
  THEN [g EXCEPT !.out_en = SetBits(@, BIT(pin)),
                 !.invert = IF flags.GPIO_POL_INV THEN SetBits(@, BIT(pin))
                            ELSE ClearBits(@, BIT(pin))]
  ELSE [g EXCEPT !.in_en = SetBits(@, BIT(pin))]

(* Lines 116-130: the direction bits, and the polarity of an output.       *)
ConfigDirection(g, pin, flags) ==
  IF flags.GPIO_DIR_OUT
  THEN [g EXCEPT !.in_en = ClearBits(@, BIT(pin)),
                 !.out_en = SetBits(@, BIT(pin)),
                 !.invert = IF flags.GPIO_POL_INV THEN SetBits(@, BIT(pin))
                            ELSE ClearBits(@, BIT(pin))]
  ELSE [g EXCEPT !.out_en = ClearBits(@, BIT(pin)),
                 !.in_en = SetBits(@, BIT(pin))]

(* A pull branch that stores the mask instead of read-modify-write.        *)
ConfigPull_WholeRegister(g, pin, flags) ==
  IF flags.GPIO_PUD = GPIO_PUD_PULL_UP
  THEN [g EXCEPT !.pue = BIT(pin)]
  ELSE [g EXCEPT !.pue = {}]

(* Lines 143-146: the pull-up bit of an input.                             *)
ConfigPull(g, pin, flags) ==
  IF flags.GPIO_PUD = GPIO_PUD_PULL_UP
  THEN [g EXCEPT !.pue = SetBits(@, BIT(pin))]
  ELSE [g EXCEPT !.pue = ClearBits(@, BIT(pin))]

(* A trigger branch whose edge case leaves the level bits as they were.    *)
ConfigTrigger_KeepLevel(g, pin, flags) ==
  IF flags.GPIO_INT_EDGE
  THEN IF flags.GPIO_INT_DOUBLE_EDGE
       THEN [g EXCEPT !.rise_ie = SetBits(@, BIT(pin)),
                      !.fall_ie = SetBits(@, BIT(pin))]
       ELSE IF flags.GPIO_INT_ACTIVE_HIGH
       THEN [g EXCEPT !.rise_ie = SetBits(@, BIT(pin)),
                      !.fall_ie = ClearBits(@, BIT(pin))]
       ELSE [g EXCEPT !.rise_ie = ClearBits(@, BIT(pin)),
                      !.fall_ie = SetBits(@, BIT(pin))]
  ELSE LET g1 == [g EXCEPT !.rise_ie = ClearBits(@, BIT(pin)),
                           !.fall_ie = ClearBits(@, BIT(pin))]
       IN  IF flags.GPIO_INT_ACTIVE_HIGH
           THEN [g1 EXCEPT !.high_ie = SetBits(@, BIT(pin)),
                           !.low_ie = ClearBits(@, BIT(pin))]
           ELSE [g1 EXCEPT !.high_ie = ClearBits(@, BIT(pin)),
                           !.low_ie = SetBits(@, BIT(pin))]

(* A trigger branch whose level case sets its bit and leaves the other     *)
(* level bit as it was.                                                    *)
ConfigTrigger_KeepOtherLevel(g, pin, flags) ==
  IF flags.GPIO_INT_EDGE
  THEN LET g1 == [g EXCEPT !.high_ie = ClearBits(@, BIT(pin)),
                           !.low_ie = ClearBits(@, BIT(pin))]
       IN  IF flags.GPIO_INT_DOUBLE_EDGE
           THEN [g1 EXCEPT !.rise_ie = SetBits(@, BIT(pin)),
                           !.fall_ie = SetBits(@, BIT(pin))]
           ELSE IF flags.GPIO_INT_ACTIVE_HIGH
           THEN [g1 EXCEPT !.rise_ie = SetBits(@, BIT(pin)),
                           !.fall_ie = ClearBits(@, BIT(pin))]
           ELSE [g1 EXCEPT !.rise_ie = ClearBits(@, BIT(pin)),
                           !.fall_ie = SetBits(@, BIT(pin))]
  ELSE LET g1 == [g EXCEPT !.rise_ie = ClearBits(@, BIT(pin)),
                           !.fall_ie = ClearBits(@, BIT(pin))]
       IN  IF flags.GPIO_INT_ACTIVE_HIGH
           THEN [g1 EXCEPT !.high_ie = SetBits(@, BIT(pin))]
           ELSE [g1 EXCEPT !.low_ie = SetBits(@, BIT(pin))]

(* A trigger branch whose single-edge case tests GPIO_INT_ACTIVE_HIGH the  *)
(* wrong way round.                                                        *)
ConfigTrigger_SwapActive(g, pin, flags) ==
  IF flags.GPIO_INT_EDGE
  THEN LET g1 == [g EXCEPT !.high_ie = ClearBits(@, BIT(pin)),
                           !.low_ie = ClearBits(@, BIT(pin))]
       IN  IF flags.GPIO_INT_DOUBLE_EDGE
           THEN [g1 EXCEPT !.rise_ie = SetBits(@, BIT(pin)),
                           !.fall_ie = SetBits(@, BIT(pin))]
           ELSE IF ~flags.GPIO_INT_ACTIVE_HIGH
           THEN [g1 EXCEPT !.rise_ie = SetBits(@, BIT(pin)),
                           !.fall_ie = ClearBits(@, BIT(pin))]
           ELSE [g1 EXCEPT !.rise_ie = ClearBits(@, BIT(pin)),
                           !.fall_ie = SetBits(@, BIT(pin))]
  ELSE LET g1 == [g EXCEPT !.rise_ie = ClearBits(@, BIT(pin)),
                           !.fall_ie = ClearBits(@, BIT(pin))]
       IN  IF flags.GPIO_INT_ACTIVE_HIGH
           THEN [g1 EXCEPT !.high_ie = SetBits(@, BIT(pin)),
                           !.low_ie = ClearBits(@, BIT(pin))]
           ELSE [g1 EXCEPT !.high_ie = ClearBits(@, BIT(pin)),
                           !.low_ie = SetBits(@, BIT(pin))]

(* A trigger branch whose level case leaves the edge bits as they were.    *)
ConfigTrigger_LevelKeepsEdge(g, pin, flags) ==
  IF flags.GPIO_INT_EDGE
  THEN LET g1 == [g EXCEPT !.high_ie = ClearBits(@, BIT(pin)),
                           !.low_ie = ClearBits(@, BIT(pin))]
       IN  IF flags.GPIO_INT_DOUBLE_EDGE
           THEN [g1 EXCEPT !.rise_ie = SetBits(@, BIT(pin)),
                           !.fall_ie = SetBits(@, BIT(pin))]
           ELSE IF flags.GPIO_INT_ACTIVE_HIGH
           THEN [g1 EXCEPT !.rise_ie = SetBits(@, BIT(pin)),
                           !.fall_ie = ClearBits(@, BIT(pin))]
           ELSE [g1 EXCEPT !.rise_ie = ClearBits(@, BIT(pin)),
                           !.fall_ie = SetBits(@, BIT(pin))]
  ELSE IF flags.GPIO_INT_ACTIVE_HIGH
       THEN [g EXCEPT !.high_ie = SetBits(@, BIT(pin)),
                      !.low_ie = ClearBits(@, BIT(pin))]
       ELSE [g EXCEPT !.high_ie = ClearBits(@, BIT(pin)),
                      !.low_ie = SetBits(@, BIT(pin))]

(* Lines 168-195: the trigger type of an interrupt input.                  *)
ConfigTrigger(g, pin, flags) ==
  IF flags.GPIO_INT_EDGE
  THEN LET g1 == [g EXCEPT !.high_ie = ClearBits(@, BIT(pin)),
                           !.low_ie = ClearBits(@, BIT(pin))]
       IN  IF flags.GPIO_INT_DOUBLE_EDGE
           THEN [g1 EXCEPT !.rise_ie = SetBits(@, BIT(pin)),
                           !.fall_ie = SetBits(@, BIT(pin))]
           ELSE IF flags.GPIO_INT_ACTIVE_HIGH
           THEN [g1 EXCEPT !.rise_ie = SetBits(@, BIT(pin)),
                           !.fall_ie = ClearBits(@, BIT(pin))]
           ELSE [g1 EXCEPT !.rise_ie = ClearBits(@, BIT(pin)),
                           !.fall_ie = SetBits(@, BIT(pin))]
  ELSE LET g1 == [g EXCEPT !.rise_ie = ClearBits(@, BIT(pin)),
                           !.fall_ie = ClearBits(@, BIT(pin))]
       IN  IF flags.GPIO_INT_ACTIVE_HIGH
           THEN [g1 EXCEPT !.high_ie = SetBits(@, BIT(pin)),
                           !.low_ie = ClearBits(@, BIT(pin))]
           ELSE [g1 EXCEPT !.high_ie = ClearBits(@, BIT(pin)),
                           !.low_ie = SetBits(@, BIT(pin))]

(* An input check that accepts a pull-down request.                        *)
InputFlagsInvalid_NoPullDown(flags) == flags.GPIO_POL_INV

(* Lines 132-141: the two checks of the input branch, each returning       *)
(* -EINVAL.                                                                *)
InputFlagsInvalid(flags) ==
  \/ flags.GPIO_POL_INV
  \/ flags.GPIO_PUD = GPIO_PUD_PULL_DOWN

(* A configure that disarms the pin's triggers when GPIO_INT is not set.   *)
gpio_sifive_config_DisarmWithoutInt(g, access_op, pin, flags) ==
  IF access_op # GPIO_ACCESS_BY_PIN THEN [gpio |-> g, ret |-> ENOTSUP]
  ELSE IF pin >= PIN_COUNT THEN [gpio |-> g, ret |-> EINVAL]
  ELSE
    LET g1 == ConfigDirection(g, pin, flags)
        g2 == IF flags.GPIO_DIR_OUT THEN g1 ELSE ConfigPull(g1, pin, flags)
    IN  IF ~flags.GPIO_DIR_OUT /\ InputFlagsInvalid(flags)
        THEN [gpio |-> g1, ret |-> EINVAL]
        ELSE IF ~flags.GPIO_INT
        THEN [gpio |-> [g2 EXCEPT !.rise_ie = ClearBits(@, BIT(pin)),
                                  !.fall_ie = ClearBits(@, BIT(pin)),
                                  !.high_ie = ClearBits(@, BIT(pin)),
                                  !.low_ie = ClearBits(@, BIT(pin))],
              ret |-> ESUCCESS]
        ELSE IF flags.GPIO_DIR_OUT THEN [gpio |-> g2, ret |-> EINVAL]
        ELSE [gpio |-> ConfigTrigger(g2, pin, flags), ret |-> ESUCCESS]

(* The whole function: the register block it leaves and the value it       *)
(* returns. The direction bits are written before the flag combination is  *)
(* checked, so an early return keeps them.                                 *)
gpio_sifive_config(g, access_op, pin, flags) ==
  IF access_op # GPIO_ACCESS_BY_PIN THEN [gpio |-> g, ret |-> ENOTSUP]
  ELSE IF pin >= PIN_COUNT THEN [gpio |-> g, ret |-> EINVAL]
  ELSE
    LET g1 == ConfigDirection(g, pin, flags)
        g2 == IF flags.GPIO_DIR_OUT THEN g1 ELSE ConfigPull(g1, pin, flags)
    IN  IF ~flags.GPIO_DIR_OUT /\ InputFlagsInvalid(flags)
        THEN [gpio |-> g1, ret |-> EINVAL]
        ELSE IF ~flags.GPIO_INT THEN [gpio |-> g2, ret |-> ESUCCESS]
        ELSE IF flags.GPIO_DIR_OUT THEN [gpio |-> g2, ret |-> EINVAL]
        ELSE [gpio |-> ConfigTrigger(g2, pin, flags), ret |-> ESUCCESS]

(* ---------------------------------------------------------------------- *)
(* gpio_sifive_write, gpio_sifive_read                                     *)
(* ---------------------------------------------------------------------- *)
(* A write whose range check accepts pin == SIFIVE_PINMUX_PINS.            *)
gpio_sifive_write_OffByOne(g, access_op, pin, value) ==
  IF access_op # GPIO_ACCESS_BY_PIN THEN [gpio |-> g, ret |-> ENOTSUP]
  ELSE IF pin > PIN_COUNT THEN [gpio |-> g, ret |-> EINVAL]
  ELSE IF TestBits(g.in_en, BIT(pin)) THEN [gpio |-> g, ret |-> EINVAL]
  ELSE IF value # 0
  THEN [gpio |-> [g EXCEPT !.out_val = SetBits(@, BIT(pin))], ret |-> ESUCCESS]
  ELSE [gpio |-> [g EXCEPT !.out_val = ClearBits(@, BIT(pin))],
        ret |-> ESUCCESS]

(* A write that does not test the input-enable bit.                        *)
gpio_sifive_write_NoInputCheck(g, access_op, pin, value) ==
  IF access_op # GPIO_ACCESS_BY_PIN THEN [gpio |-> g, ret |-> ENOTSUP]
  ELSE IF pin >= PIN_COUNT THEN [gpio |-> g, ret |-> EINVAL]
  ELSE IF value # 0
  THEN [gpio |-> [g EXCEPT !.out_val = SetBits(@, BIT(pin))], ret |-> ESUCCESS]
  ELSE [gpio |-> [g EXCEPT !.out_val = ClearBits(@, BIT(pin))],
        ret |-> ESUCCESS]

(* Lines 210-233.                                                          *)
gpio_sifive_write(g, access_op, pin, value) ==
  IF access_op # GPIO_ACCESS_BY_PIN THEN [gpio |-> g, ret |-> ENOTSUP]
  ELSE IF pin >= PIN_COUNT THEN [gpio |-> g, ret |-> EINVAL]
  ELSE IF TestBits(g.in_en, BIT(pin)) THEN [gpio |-> g, ret |-> EINVAL]
  ELSE IF value # 0
  THEN [gpio |-> [g EXCEPT !.out_val = SetBits(@, BIT(pin))], ret |-> ESUCCESS]
  ELSE [gpio |-> [g EXCEPT !.out_val = ClearBits(@, BIT(pin))],
        ret |-> ESUCCESS]

NoValue == "none"

(* A read that always takes the input-value register.                      *)
gpio_sifive_read_AlwaysInVal(g, access_op, pin) ==
  IF access_op # GPIO_ACCESS_BY_PIN THEN [ret |-> ENOTSUP, value |-> NoValue]
  ELSE IF pin >= PIN_COUNT THEN [ret |-> EINVAL, value |-> NoValue]
  ELSE [ret |-> ESUCCESS,
        value |-> IF TestBits(g.in_val, BIT(pin)) THEN 1 ELSE 0]

(* Lines 245-269.                                                          *)
(* ret and *value; *value is not written when the call fails.              *)
gpio_sifive_read(g, access_op, pin) ==
  IF access_op # GPIO_ACCESS_BY_PIN THEN [ret |-> ENOTSUP, value |-> NoValue]
  ELSE IF pin >= PIN_COUNT THEN [ret |-> EINVAL, value |-> NoValue]
  ELSE IF TestBits(g.out_en, BIT(pin))
  THEN [ret |-> ESUCCESS,
        value |-> IF TestBits(g.out_val, BIT(pin)) THEN 1 ELSE 0]
  ELSE [ret |-> ESUCCESS,
        value |-> IF TestBits(g.in_val, BIT(pin)) THEN 1 ELSE 0]

(* ---------------------------------------------------------------------- *)
(* gpio_sifive_enable_callback, gpio_sifive_disable_callback               *)
(* irq_enable(n) / irq_disable(n) unmask / mask line n at the PLIC.        *)
(* ---------------------------------------------------------------------- *)
(* An enable that passes the pin number, not the line number, to           *)
(* irq_enable.                                                             *)
gpio_sifive_enable_callback_NoBase(enabled, access_op, pin) ==
  IF access_op # GPIO_ACCESS_BY_PIN THEN [irq_enabled |-> enabled, ret |-> ENOTSUP]
  ELSE IF pin >= PIN_COUNT THEN [irq_enabled |-> enabled, ret |-> EINVAL]
  ELSE [irq_enabled |-> enabled \cup {pin}, ret |-> ESUCCESS]

gpio_sifive_enable_callback(enabled, access_op, pin) ==
  IF access_op # GPIO_ACCESS_BY_PIN THEN [irq_enabled |-> enabled, ret |-> ENOTSUP]
  ELSE IF pin >= PIN_COUNT THEN [irq_enabled |-> enabled, ret |-> EINVAL]
  ELSE [irq_enabled |-> enabled \cup {gpio_irq_base + pin}, ret |-> ESUCCESS]

gpio_sifive_disable_callback(enabled, access_op, pin) ==
  IF access_op # GPIO_ACCESS_BY_PIN THEN [irq_enabled |-> enabled, ret |-> ENOTSUP]
  ELSE IF pin >= PIN_COUNT THEN [irq_enabled |-> enabled, ret |-> EINVAL]
  ELSE [irq_enabled |-> enabled \ {gpio_irq_base + pin}, ret |-> ESUCCESS]

(* ---------------------------------------------------------------------- *)
(* gpio_sifive_irq_handler                                                 *)
(* ---------------------------------------------------------------------- *)

(* The numbers riscv_plic_get_irq() reports for the GPIO lines: the PLIC   *)
(* source number, line - RISCV_MAX_GENERIC_IRQ.                            *)
PlicIrqs == {gpio_irq_base + pin - RISCV_MAX_GENERIC_IRQ : pin \in Pins}

(* Lines 71-72: pin_mask = 1 << (irq - (gpio_irq_base - MAX_GENERIC_IRQ)). *)
IrqPinMask(irq) == BIT(irq - (gpio_irq_base - RISCV_MAX_GENERIC_IRQ))

(* gpio_fire_callbacks(list, dev, pins): the handlers of the list whose    *)
(* pin_mask intersects pins, in list order, each called with pins.         *)
gpio_fire_callbacks(list, pins) ==
  LET hit == SelectSeq(list, LAMBDA c : TestBits(c.pin_mask, pins))
  IN  [i \in 1 .. Len(hit) |-> [handler |-> hit[i].handler, pins |-> pins]]

(* gpio_manage_callback(list, callback, set): the callback is taken out of *)
(* the list if it is there and, when set, put at its head.                 *)
gpio_manage_callback(list, callback, set) ==
  LET others == SelectSeq(list, LAMBDA c : c.handler # callback.handler)
  IN  IF set THEN <<callback>> \o others ELSE others

(* Lines 271-278.                                                          *)
gpio_sifive_manage_callback(list, callback, set) ==
  [cb |-> gpio_manage_callback(list, callback, set), ret |-> ESUCCESS]

(* A store to a pending register: the hardware clears the bits written as  *)
(* 1 and keeps the others (write-1-to-clear).                              *)
WriteOneToClear(reg, value) == reg \ value

(* An acknowledge that tests fall_ip before rise_ip.                       *)
AckPending_FallFirst(g, pin_mask) ==
  IF TestBits(g.fall_ip, pin_mask)
  THEN [gpio |-> [g EXCEPT !.fall_ip = WriteOneToClear(@, pin_mask)],
        acked |-> "fall_ip"]
  ELSE IF TestBits(g.rise_ip, pin_mask)
  THEN [gpio |-> [g EXCEPT !.rise_ip = WriteOneToClear(@, pin_mask)],
        acked |-> "rise_ip"]
  ELSE IF TestBits(g.high_ip, pin_mask)
  THEN [gpio |-> [g EXCEPT !.high_ip = WriteOneToClear(@, pin_mask)],
        acked |-> "high_ip"]
  ELSE IF TestBits(g.low_ip, pin_mask)
  THEN [gpio |-> [g EXCEPT !.low_ip = WriteOneToClear(@, pin_mask)],
        acked |-> "low_ip"]
  ELSE [gpio |-> g, acked |-> NoValue]

(* An acknowledge that clears every pending bit of the pin at once.        *)
AckPending_ClearAll(g, pin_mask) ==
  [gpio |-> [g EXCEPT !.rise_ip = WriteOneToClear(@, pin_mask),
                      !.fall_ip = WriteOneToClear(@, pin_mask),
                      !.high_ip = WriteOneToClear(@, pin_mask),
                      !.low_ip = WriteOneToClear(@, pin_mask)],
   acked |-> IF TestBits(g.rise_ip, pin_mask) THEN "rise_ip"
             ELSE IF TestBits(g.fall_ip, pin_mask) THEN "fall_ip"
             ELSE IF TestBits(g.high_ip, pin_mask) THEN "high_ip"
             ELSE IF TestBits(g.low_ip, pin_mask) THEN "low_ip"
             ELSE NoValue]

(* Lines 82-89: the first pending register, in the order rise, fall, high, *)
(* low, that has the pin's bit set is written with pin_mask; acked names   *)
(* the register written.                                                   *)
AckPending(g, pin_mask) ==
  IF TestBits(g.rise_ip, pin_mask)
  THEN [gpio |-> [g EXCEPT !.rise_ip = WriteOneToClear(@, pin_mask)],
        acked |-> "rise_ip"]
  ELSE IF TestBits(g.fall_ip, pin_mask)
  THEN [gpio |-> [g EXCEPT !.fall_ip = WriteOneToClear(@, pin_mask)],
        acked |-> "fall_ip"]
  ELSE IF TestBits(g.high_ip, pin_mask)
  THEN [gpio |-> [g EXCEPT !.high_ip = WriteOneToClear(@, pin_mask)],
        acked |-> "high_ip"]
  ELSE IF TestBits(g.low_ip, pin_mask)
  THEN [gpio |-> [g EXCEPT !.low_ip = WriteOneToClear(@, pin_mask)],
        acked |-> "low_ip"]
  ELSE [gpio |-> g, acked |-> NoValue]

(* A handler that acknowledges without calling gpio_fire_callbacks.        *)
gpio_sifive_irq_handler_NoCallbacks(g, list, irq) ==
  LET pin_mask == IrqPinMask(irq)
      ack == AckPending(g, pin_mask)
  IN  [gpio |-> ack.gpio, pin_mask |-> pin_mask, fired |-> <<>>,
       acked |-> ack.acked]

(* The whole handler: identify the pin, fire the callbacks, acknowledge.   *)
(* The callbacks are taken not to touch the register block.                *)
gpio_sifive_irq_handler(g, list, irq) ==
  LET pin_mask == IrqPinMask(irq)
      fired == gpio_fire_callbacks(list, pin_mask)
      ack == AckPending(g, pin_mask)
  IN  [gpio |-> ack.gpio, pin_mask |-> pin_mask, fired |-> fired,
       acked |-> ack.acked]

(* ---------------------------------------------------------------------- *)
(* The record of the last call                                             *)
(* ---------------------------------------------------------------------- *)
Call(op, access_op, pin, flags, value, ret, out, acked, fired) ==
  [op |-> op, access_op |-> access_op, pin |-> pin, flags |-> flags,
   value |-> value, ret |-> ret, out |-> out, acked |-> acked, fired |-> fired]

(* ---------------------------------------------------------------------- *)
(* gpio_sifive_init: the state after the device is initialised             *)
(* ---------------------------------------------------------------------- *)
gpio_sifive_init_SkipInvert(g) ==
  [g EXCEPT !.in_en = {}, !.out_en = {}, !.pue = {}, !.rise_ie = {},
            !.fall_ie = {}, !.high_ie = {}, !.low_ie = {}]

gpio_sifive_init(g) ==
  [g EXCEPT !.in_en = {}, !.out_en = {}, !.pue = {}, !.rise_ie = {},
            !.fall_ie = {}, !.high_ie = {}, !.low_ie = {}, !.invert = {}]

(* No interrupt is being handled: the handler has no frame.                *)
IsrIdle == [pc |-> "idle", pin_mask |-> {}, todo |-> <<>>, fired |-> <<>>,
            writes |-> 0]

(* No configure or write call is in progress.                              *)
TaskIdle == [op |-> "none", pin |-> 0, flags |-> NoFlags, value |-> 0,
             pc |-> 0, tmp |-> {}, start |-> ZeroRegs, preempted |-> FALSE]

Init ==
  /\ gpio = gpio_sifive_init(ZeroRegs)
  /\ irq_enabled = {}
  /\ cb = <<>>
  /\ isr = IsrIdle
  /\ task = TaskIdle
  /\ last = Call("init", GPIO_ACCESS_BY_PIN, 0, NoFlags, 0, ESUCCESS, NoValue,
                 NoValue, <<>>)

(* ---------------------------------------------------------------------- *)
(* Actions                                                                 *)
(* ---------------------------------------------------------------------- *)
Config(access_op, pin, flags) ==
  LET r == gpio_sifive_config(gpio, access_op, pin, flags)
  IN  /\ gpio' = r.gpio
      /\ last' = Call("config", access_op, pin, flags, 0, r.ret, NoValue,
                      NoValue, <<>>)
      /\ UNCHANGED <<irq_enabled, cb, isr, task>>

Write(access_op, pin, value) ==
  LET r == gpio_sifive_write(gpio, access_op, pin, value)
  IN  /\ gpio' = r.gpio
      /\ last' = Call("write", access_op, pin, NoFlags, value, r.ret, NoValue,
                      NoValue, <<>>)
      /\ UNCHANGED <<irq_enabled, cb, isr, task>>

Read(access_op, pin) ==
  LET r == gpio_sifive_read(gpio, access_op, pin)
  IN  /\ last' = Call("read", access_op, pin, NoFlags, 0, r.ret, r.value,
                      NoValue, <<>>)
      /\ UNCHANGED <<gpio, irq_enabled, cb, isr, task>>

EnableCallback(access_op, pin) ==
  LET r == gpio_sifive_enable_callback(irq_enabled, access_op, pin)
  IN  /\ irq_enabled' = r.irq_enabled
      /\ last' = Call("enable_callback", access_op, pin, NoFlags, 0, r.ret,
                      NoValue, NoValue, <<>>)
      /\ UNCHANGED <<gpio, cb, isr, task>>

DisableCallback(access_op, pin) ==
  LET r == gpio_sifive_disable_callback(irq_enabled, access_op, pin)
  IN  /\ irq_enabled' = r.irq_enabled
      /\ last' = Call("disable_callback", access_op, pin, NoFlags, 0, r.ret,
                      NoValue, NoValue, <<>>)
      /\ UNCHANGED <<gpio, cb, isr, task>>

(* The callback structures: a handler and the pin_mask its owner gave it.  *)
Callbacks == [handler : 1 .. NumHandlers, pin_mask : SUBSET Pins]

ManageCallback(callback, set) ==
  LET r == gpio_sifive_manage_callback(cb, callback, set)
  IN  /\ cb' = r.cb
      /\ last' = Call("manage_callback", GPIO_ACCESS_BY_PIN, 0, NoFlags,
                      callback.handler, r.ret, IF set THEN "set" ELSE "unset",
                      NoValue, <<>>)
      /\ UNCHANGED <<gpio, irq_enabled, isr, task>>

(* One firing of a GPIO line; pin is the pin the handler identified.       *)
IrqHandler(irq) ==
  LET r == gpio_sifive_irq_handler(gpio, cb, irq)
  IN  /\ gpio' = r.gpio
      /\ last' = Call("irq", GPIO_ACCESS_BY_PIN,
                      CHOOSE pin \in Pins : r.pin_mask = BIT(pin), NoFlags, 0,
                      ESUCCESS, NoValue, r.acked, r.fired)
      /\ UNCHANGED <<irq_enabled, cb, isr, task>>

(* The hardware: the level of an input pin changes.                        *)
HwInput(pin) ==
  /\ gpio' = [gpio EXCEPT !.in_val = IF pin \in @ THEN @ \ {pin}
                                     ELSE @ \cup {pin}]
  /\ last' = Call("hw_input", GPIO_ACCESS_BY_PIN, pin, NoFlags, 0, ESUCCESS,
                  NoValue, NoValue, <<>>)
  /\ UNCHANGED <<irq_enabled, cb, isr, task>>

PendingRegs == {"rise_ip", "fall_ip", "high_ip", "low_ip"}

(* The hardware: a trigger condition of a pin sets its pending bit.        *)
HwPending(reg, pin) ==
  /\ pin \notin gpio[reg]
  /\ gpio' = [gpio EXCEPT ![reg] = @ \cup {pin}]
  /\ last' = Call("hw_pending", GPIO_ACCESS_BY_PIN, pin, NoFlags, 0, ESUCCESS,
                  NoValue, reg, <<>>)
  /\ UNCHANGED <<irq_enabled, cb, isr, task>>

(* Flag sets with the trigger-type bits 0 (GPIO_INT_LEVEL |                *)
(* GPIO_INT_ACTIVE_LOW): every direction, polarity, pull and GPIO_INT.     *)
DirFlags ==
  {f \in Flags : ~f.GPIO_INT_EDGE /\ ~f.GPIO_INT_DOUBLE_EDGE
                 /\ ~f.GPIO_INT_ACTIVE_HIGH}

NextDir == \E pin \in Pins, flags \in DirFlags :
             Config(GPIO_ACCESS_BY_PIN, pin, flags)

SpecDir == Init /\ [][NextDir]_vars

(* Flag sets with polarity and pull 0: every direction, GPIO_INT and       *)
(* trigger type.                                                           *)
TrigFlags ==
  {f \in Flags : ~f.GPIO_POL_INV /\ f.GPIO_PUD = GPIO_PUD_NORMAL}

NextTrig == \E pin \in Pins, flags \in TrigFlags :
              Config(GPIO_ACCESS_BY_PIN, pin, flags)

SpecTrig == Init /\ [][NextTrig]_vars

(* Flag sets of direction and polarity alone.                              *)
PolFlags ==
  {f \in DirFlags : f.GPIO_PUD = GPIO_PUD_NORMAL /\ ~f.GPIO_INT}

(* Every operation of the API, and interrupt firings, on valid pins.       *)
NextApi ==
  \/ \E pin \in Pins, flags \in PolFlags :
       Config(GPIO_ACCESS_BY_PIN, pin, flags)
  \/ \E pin \in Pins, value \in 0 .. 1 : Write(GPIO_ACCESS_BY_PIN, pin, value)
  \/ \E pin \in Pins : Read(GPIO_ACCESS_BY_PIN, pin)
  \/ \E pin \in Pins : EnableCallback(GPIO_ACCESS_BY_PIN, pin)
  \/ \E pin \in Pins : DisableCallback(GPIO_ACCESS_BY_PIN, pin)
  \/ \E irq \in PlicIrqs : IrqHandler(irq)

SpecApi == Init /\ [][NextApi]_vars

(* Flag sets of direction alone.                                           *)
PlainFlags == {f \in PolFlags : ~f.GPIO_POL_INV}

(* Pin I/O: direction changes, writes, reads and input level changes.      *)
NextIO ==
  \/ \E pin \in Pins, flags \in PlainFlags :
       Config(GPIO_ACCESS_BY_PIN, pin, flags)
  \/ \E pin \in Pins, value \in 0 .. MaxValue :
       Write(GPIO_ACCESS_BY_PIN, pin, value)
  \/ \E pin \in Pins : Read(GPIO_ACCESS_BY_PIN, pin)
  \/ \E pin \in Pins : HwInput(pin)

SpecIO == Init /\ [][NextIO]_vars

(* Interrupt firings against every combination of pending bits.            *)
NextIrq ==
  \/ \E reg \in PendingRegs, pin \in Pins : HwPending(reg, pin)
  \/ \E irq \in PlicIrqs : IrqHandler(irq)

SpecIrq == Init /\ [][NextIrq]_vars

(* Callback registration and interrupt firings.                            *)
NextCb ==
  \/ \E callback \in Callbacks, set \in BOOLEAN : ManageCallback(callback, set)
  \/ \E irq \in PlicIrqs : IrqHandler(irq)

SpecCb == Init /\ [][NextCb]_vars

(* ---------------------------------------------------------------------- *)
(* One call of the API, with every argument, from a family of register     *)
(* states: the contract of each function taken alone.                      *)
(* ---------------------------------------------------------------------- *)

(* Flag sets the prior configurations are made of.                         *)
OutputInverted ==
  [NoFlags EXCEPT !.GPIO_DIR_OUT = TRUE, !.GPIO_POL_INV = TRUE]
InputPullUpDoubleEdge ==
  [NoFlags EXCEPT !.GPIO_PUD = GPIO_PUD_PULL_UP, !.GPIO_INT = TRUE,
                  !.GPIO_INT_EDGE = TRUE, !.GPIO_INT_DOUBLE_EDGE = TRUE]
InputLevelHigh ==
  [NoFlags EXCEPT !.GPIO_INT = TRUE, !.GPIO_INT_ACTIVE_HIGH = TRUE]
InputLevelLow == [NoFlags EXCEPT !.GPIO_INT = TRUE]

(* What was done to a pin before the call: nothing, or a sequence of       *)
(* gpio_sifive_config calls. Between them every bit configure programs is  *)
(* 1 in one history and 0 in another.                                      *)
PinHistories ==
  {<<>>, <<InputPullUpDoubleEdge, OutputInverted>>,
   <<OutputInverted, InputLevelHigh>>, <<InputLevelLow>>}

RECURSIVE ConfigureAll(_, _, _)
(* The registers after the calls of history[pin], for each pin from `pin`  *)
(* up.                                                                     *)
ConfigureAll(g, pin, history) ==
  IF pin >= PIN_COUNT THEN g
  ELSE IF history[pin] = <<>> THEN ConfigureAll(g, pin + 1, history)
  ELSE ConfigureAll(
         gpio_sifive_config(g, GPIO_ACCESS_BY_PIN, pin, Head(history[pin])).gpio,
         pin, [history EXCEPT ![pin] = Tail(@)])

(* The registers gpio_sifive_init does not write (set by the hardware, by  *)
(* gpio_sifive_write and by the pin multiplexer), all 0 or all 1.          *)
OtherRegs(bits) ==
  [ZeroRegs EXCEPT !.in_val = bits, !.out_val = bits, !.ds = bits,
                   !.rise_ip = bits, !.fall_ip = bits, !.high_ip = bits,
                   !.low_ip = bits, !.iof_en = bits, !.iof_sel = bits]

PriorStates ==
  {ConfigureAll(gpio_sifive_init(OtherRegs(bits)), 0, history) :
     bits \in {{}, Pins}, history \in [Pins -> PinHistories]}

IrqLines == {gpio_irq_base + pin : pin \in Pins}

InitCall ==
  /\ gpio \in PriorStates
  /\ irq_enabled \in {{}, IrqLines}
  /\ cb = <<>>
  /\ isr = IsrIdle
  /\ task = TaskIdle
  /\ last = Call("init", GPIO_ACCESS_BY_PIN, 0, NoFlags, 0, ESUCCESS, NoValue,
                 NoValue, <<>>)

(* No call was made yet.                                                   *)
Fresh == last.op = "init"

NextCall ==
  \/ Fresh /\ \E access_op \in AccessOps, pin \in PinArgs, flags \in Flags :
                Config(access_op, pin, flags)
  \/ Fresh /\ \E access_op \in AccessOps, pin \in PinArgs,
                  value \in 0 .. MaxValue : Write(access_op, pin, value)
  \/ Fresh /\ \E access_op \in AccessOps, pin \in PinArgs :
                Read(access_op, pin)
  \/ Fresh /\ \E access_op \in AccessOps, pin \in PinArgs :
                EnableCallback(access_op, pin)
  \/ Fresh /\ \E access_op \in AccessOps, pin \in PinArgs :
                DisableCallback(access_op, pin)

SpecCall == InitCall /\ [][NextCall]_vars

(* ---------------------------------------------------------------------- *)
(* Device initialisation from whatever the registers held at boot.         *)
(* ---------------------------------------------------------------------- *)

(* The registers gpio_sifive_init writes.                                  *)
InitRegs ==
  {"in_en", "out_en", "pue", "rise_ie", "fall_ie", "high_ie", "low_ie",
   "invert"}

(* What a register may hold before initialisation: no bit, the bit of pin  *)
(* 0, every bit.                                                           *)
BootValues == {{}, {0}, Pins}

BootStates ==
  {[reg \in DOMAIN ZeroRegs |-> IF reg \in InitRegs THEN cfg[reg] ELSE other[reg]] :
     cfg \in [InitRegs -> BootValues], other \in {OtherRegs({}), OtherRegs(Pins)}}

InitBoot ==
  /\ gpio \in BootStates
  /\ irq_enabled = {}
  /\ cb = <<>>
  /\ isr = IsrIdle
  /\ task = TaskIdle
  /\ last = Call("boot", GPIO_ACCESS_BY_PIN, 0, NoFlags, 0, ESUCCESS, NoValue,
                 NoValue, <<>>)

(* The kernel runs gpio_sifive_init once; last.value counts the registers  *)
(* it found non-zero.                                                      *)
DeviceInit ==
  /\ last.op = "boot"
  /\ gpio' = gpio_sifive_init(gpio)
  /\ last' = Call("init", GPIO_ACCESS_BY_PIN, 0, NoFlags,
                  Cardinality({reg \in InitRegs : gpio[reg] # {}}), ESUCCESS,
                  NoValue, NoValue, <<>>)
  /\ UNCHANGED <<irq_enabled, cb, isr, task>>

(* Initialisation, then the hardware alone: no other operation is called.  *)
NextInit ==
  \/ DeviceInit
  \/ \E pin \in Pins : last.op # "boot" /\ HwInput(pin)
  \/ \E reg \in PendingRegs, pin \in Pins :
       last.op # "boot" /\ HwPending(reg, pin)

SpecInit == InitBoot /\ [][NextInit]_vars

(* ---------------------------------------------------------------------- *)
(* gpio_sifive_irq_handler step by step, with the hardware running beside  *)
(* it.                                                                     *)
(* ---------------------------------------------------------------------- *)

(* The pin a single-bit mask stands for.                                   *)
PinOf(pin_mask) == CHOOSE pin \in Pins : pin_mask = BIT(pin)

(* Lines 71-75, entry: pin_mask is computed from the PLIC's claimed line   *)
(* and gpio_fire_callbacks takes the callbacks it will call.               *)
IsrIdentify(list, irq) ==
  LET pin_mask == IrqPinMask(irq)
  IN  [pc |-> "fire", pin_mask |-> pin_mask,
       todo |-> gpio_fire_callbacks(list, pin_mask), fired |-> <<>>,
       writes |-> 0]

(* A handler that also acknowledges while callbacks are still to be        *)
(* called.                                                                 *)
IsrStep_AckBeforeCallbacks(g, frame) ==
  LET ack == AckPending(g, frame.pin_mask)
      writes == frame.writes + IF ack.acked = NoValue THEN 0 ELSE 1
  IN  IF frame.todo # <<>>
      THEN [gpio |-> ack.gpio,
            isr |-> [frame EXCEPT !.todo = Tail(@),
                                  !.fired = Append(@, Head(frame.todo)),
                                  !.writes = writes],
            acked |-> ack.acked, writes |-> writes]
      ELSE [gpio |-> ack.gpio, isr |-> IsrIdle, acked |-> ack.acked,
            writes |-> writes]

(* A handler that, once its callbacks are done, also disarms the rising    *)
(* edge of its pin.                                                        *)
IsrStep_DisarmsPin(g, frame) ==
  IF frame.todo # <<>>
  THEN [gpio |-> g,
        isr |-> [frame EXCEPT !.todo = Tail(@),
                              !.fired = Append(@, Head(frame.todo))],
        acked |-> NoValue, writes |-> frame.writes]
  ELSE LET ack == AckPending(g, frame.pin_mask)
       IN  [gpio |-> [ack.gpio EXCEPT
                        !.rise_ie = ClearBits(@, frame.pin_mask)],
            isr |-> IsrIdle, acked |-> ack.acked,
            writes |-> frame.writes + IF ack.acked = NoValue THEN 0 ELSE 1]

(* One step of the handler after entry: the next matching callback is      *)
(* called (line 75) or, when none is left, the pending registers are read  *)
(* and the first one set is written (lines 82-89) and the handler returns. *)
(* writes counts the stores to pending registers since entry.              *)
IsrStep(g, frame) ==
  IF frame.todo # <<>>
  THEN [gpio |-> g,
        isr |-> [frame EXCEPT !.todo = Tail(@),
                              !.fired = Append(@, Head(frame.todo))],
        acked |-> NoValue, writes |-> frame.writes]
  ELSE LET ack == AckPending(g, frame.pin_mask)
       IN  [gpio |-> ack.gpio, isr |-> IsrIdle, acked |-> ack.acked,
            writes |-> frame.writes + IF ack.acked = NoValue THEN 0 ELSE 1]

(* The PLIC hands a line of the controller to the handler.                 *)
IsrEnter(irq) ==
  /\ isr.pc = "idle"
  /\ isr' = IsrIdentify(cb, irq)
  /\ last' = Call("isr_enter", GPIO_ACCESS_BY_PIN, PinOf(IrqPinMask(irq)),
                  NoFlags, 0, ESUCCESS, NoValue, NoValue, <<>>)
  /\ UNCHANGED <<gpio, irq_enabled, cb, task>>

(* The handler runs its next step.                                         *)
IsrRun ==
  /\ isr.pc = "fire"
  /\ LET r == IsrStep(gpio, isr)
     IN  /\ gpio' = r.gpio
         /\ isr' = r.isr
         /\ last' = IF isr.todo # <<>>
                    THEN Call("isr_callback", GPIO_ACCESS_BY_PIN,
                              PinOf(isr.pin_mask), NoFlags,
                              Head(isr.todo).handler, ESUCCESS, NoValue,
                              r.acked, r.isr.fired)
                    ELSE Call("isr_ack", GPIO_ACCESS_BY_PIN,
                              PinOf(isr.pin_mask), NoFlags, r.writes, ESUCCESS,
                              NoValue, r.acked, isr.fired)
  /\ UNCHANGED <<irq_enabled, cb, task>>

RECURSIVE RegisterAll(_, _)
(* The list after gpio_sifive_manage_callback registered handlers 1 to n,  *)
(* handler h for the pins below h.                                         *)
RegisterAll(list, n) ==
  IF n = 0 THEN list
  ELSE gpio_sifive_manage_callback(
         RegisterAll(list, n - 1),
         [handler |-> n, pin_mask |-> {pin \in Pins : pin < n}], TRUE).cb

InitIsr ==
  /\ gpio = gpio_sifive_init(ZeroRegs)
  /\ irq_enabled = {}
  /\ cb \in {<<>>, RegisterAll(<<>>, NumHandlers)}
  /\ isr = IsrIdle
  /\ task = TaskIdle
  /\ last = Call("init", GPIO_ACCESS_BY_PIN, 0, NoFlags, 0, ESUCCESS, NoValue,
                 NoValue, <<>>)

(* Interrupt handling in steps while the hardware sets pending bits.       *)
NextIsr ==
  \/ \E reg \in PendingRegs, pin \in Pins : HwPending(reg, pin)
  \/ \E irq \in PlicIrqs : IsrEnter(irq)
  \/ IsrRun

SpecIsr == InitIsr /\ [][NextIsr]_vars

(* ---------------------------------------------------------------------- *)
(* One pin armed, triggered, dispatched and reconfigured: the pin is       *)
(* chosen at the start and kept in last.pin; the other pins stay as        *)
(* gpio_sifive_init left them.                                             *)
(* ---------------------------------------------------------------------- *)

(* The interrupt-enable register of the class of a pending register.       *)
IeOf(reg) ==
  CASE reg = "rise_ip" -> "rise_ie"
    [] reg = "fall_ip" -> "fall_ie"
    [] reg = "high_ip" -> "high_ie"
    [] reg = "low_ip" -> "low_ie"

(* The PLIC line that stands for a pin.                                    *)
PlicIrqOf(pin) == gpio_irq_base + pin - RISCV_MAX_GENERIC_IRQ

(* The input configurations with the interrupt flag: every trigger type.   *)
ArmFlags == {f \in TrigFlags : ~f.GPIO_DIR_OUT /\ f.GPIO_INT}

(* The hardware sets the pending bit of a class the pin is armed for.      *)
HwTrigger(reg, pin) ==
  /\ pin \in gpio[IeOf(reg)]
  /\ HwPending(reg, pin)

(* The PLIC delivers the line of a pin: the line is unmasked and a pending *)
(* bit of the pin is set. (The PLIC latches a request, so the bit may      *)
(* belong to a class disarmed since.)                                      *)
Dispatch(pin) ==
  /\ gpio_irq_base + pin \in irq_enabled
  /\ \E reg \in PendingRegs : pin \in gpio[reg]
  /\ IsrEnter(PlicIrqOf(pin))

InitPin ==
  /\ gpio = gpio_sifive_init(ZeroRegs)
  /\ irq_enabled = {}
  /\ cb = <<>>
  /\ isr = IsrIdle
  /\ task = TaskIdle
  /\ \E pin \in Pins :
       last = Call("init", GPIO_ACCESS_BY_PIN, pin, NoFlags, 0, ESUCCESS,
                   NoValue, NoValue, <<>>)

(* The thread runs only while no interrupt is being handled.               *)
NextPend ==
  \/ \E flags \in ArmFlags :
       isr.pc = "idle" /\ Config(GPIO_ACCESS_BY_PIN, last.pin, flags)
  \/ isr.pc = "idle" /\ EnableCallback(GPIO_ACCESS_BY_PIN, last.pin)
  \/ isr.pc = "idle" /\ DisableCallback(GPIO_ACCESS_BY_PIN, last.pin)
  \/ \E reg \in PendingRegs : HwTrigger(reg, last.pin)
  \/ Dispatch(last.pin)
  \/ IsrRun

SpecPend == InitPin /\ [][NextPend]_vars

(* ---------------------------------------------------------------------- *)
(* Pending bits set once, then drained by repeated firings.                *)
(* ---------------------------------------------------------------------- *)

(* The hardware sets pending bits until the first interrupt is delivered   *)
(* and none afterwards.                                                    *)
HwBefore(reg, pin) ==
  /\ last.op \in {"init", "hw_pending"}
  /\ HwPending(reg, pin)

(* Every line unmasked by gpio_sifive_enable_callback, every handler       *)
(* registered.                                                             *)
InitDrain ==
  /\ gpio = gpio_sifive_init(ZeroRegs)
  /\ irq_enabled = IrqLines
  /\ cb = RegisterAll(<<>>, NumHandlers)
  /\ isr = IsrIdle
  /\ task = TaskIdle
  /\ last = Call("init", GPIO_ACCESS_BY_PIN, 0, NoFlags, 0, ESUCCESS, NoValue,
                 NoValue, <<>>)

NextDrain ==
  \/ \E reg \in PendingRegs, pin \in Pins : HwBefore(reg, pin)
  \/ \E pin \in Pins : Dispatch(pin)
  \/ IsrRun

(* The PLIC delivers a line again for as long as a pending bit of its pin  *)
(* is set, and a handler that was entered runs to its end.                 *)
SpecDrain ==
  /\ InitDrain /\ [][NextDrain]_vars
  /\ WF_vars(\E pin \in Pins : Dispatch(pin))
  /\ WF_vars(IsrRun)

(* ---------------------------------------------------------------------- *)
(* gpio_sifive_config and gpio_sifive_write one register access at a time, *)
(* preempted by the interrupt handler.                                     *)
(* ---------------------------------------------------------------------- *)

(* gpio->reg |= BIT(pin): a load and a store.                              *)
SetBit(reg) == <<[kind |-> "load", reg |-> reg], [kind |-> "or", reg |-> reg]>>

(* gpio->reg &= ~BIT(pin): a load and a store.                             *)
ClearBit(reg) ==
  <<[kind |-> "load", reg |-> reg], [kind |-> "andnot", reg |-> reg]>>

(* if (gpio->reg & BIT(pin)) return -EINVAL: a load.                       *)
TestBit(reg) == <<[kind |-> "test", reg |-> reg]>>

(* Lines 116-197 on a valid pin: the register accesses in program order    *)
(* and the value returned after the last of them.                          *)
ConfigAccesses(flags) ==
  LET direction ==
        IF flags.GPIO_DIR_OUT
        THEN ClearBit("in_en") \o SetBit("out_en")
               \o (IF flags.GPIO_POL_INV THEN SetBit("invert")
                                         ELSE ClearBit("invert"))
        ELSE ClearBit("out_en") \o SetBit("in_en")
      pull == IF flags.GPIO_PUD = GPIO_PUD_PULL_UP THEN SetBit("pue")
                                                   ELSE ClearBit("pue")
      edge == IF flags.GPIO_INT_DOUBLE_EDGE
              THEN SetBit("rise_ie") \o SetBit("fall_ie")
              ELSE IF flags.GPIO_INT_ACTIVE_HIGH
              THEN SetBit("rise_ie") \o ClearBit("fall_ie")
              ELSE ClearBit("rise_ie") \o SetBit("fall_ie")
      level == IF flags.GPIO_INT_ACTIVE_HIGH
               THEN SetBit("high_ie") \o ClearBit("low_ie")
               ELSE ClearBit("high_ie") \o SetBit("low_ie")
      trigger == IF flags.GPIO_INT_EDGE
                 THEN ClearBit("high_ie") \o ClearBit("low_ie") \o edge
                 ELSE ClearBit("rise_ie") \o ClearBit("fall_ie") \o level
  IN  IF flags.GPIO_DIR_OUT
      THEN [steps |-> direction,
            ret |-> IF flags.GPIO_INT THEN EINVAL ELSE ESUCCESS]
      ELSE IF InputFlagsInvalid(flags)
      THEN [steps |-> direction, ret |-> EINVAL]
      ELSE IF ~flags.GPIO_INT
      THEN [steps |-> direction \o pull, ret |-> ESUCCESS]
      ELSE [steps |-> direction \o pull \o trigger, ret |-> ESUCCESS]

(* Lines 224-232 on a valid pin.                                           *)
WriteAccesses(value) ==
  [steps |-> TestBit("in_en") \o (IF value # 0 THEN SetBit("out_val")
                                               ELSE ClearBit("out_val")),
   ret |-> ESUCCESS]

TaskAccesses(frame) ==
  IF frame.op = "config" THEN ConfigAccesses(frame.flags)
  ELSE WriteAccesses(frame.value)

(* The next register access of the call in progress; the call returns with *)
(* its last access, or when a test finds the bit set.                      *)
TaskStep(g, frame) ==
  LET prog == TaskAccesses(frame)
      step == prog.steps[frame.pc]
      bit == BIT(frame.pin)
      final == frame.pc = Len(prog.steps)
      next == IF final THEN TaskIdle ELSE [frame EXCEPT !.pc = @ + 1]
      ret == IF final THEN prog.ret ELSE NoValue
  IN  CASE step.kind = "load"
             -> [gpio |-> g,
                 task |-> [frame EXCEPT !.pc = @ + 1, !.tmp = g[step.reg]],
                 done |-> FALSE, ret |-> NoValue]
        [] step.kind = "or"
             -> [gpio |-> [g EXCEPT ![step.reg] = SetBits(frame.tmp, bit)],
                 task |-> next, done |-> final, ret |-> ret]
        [] step.kind = "andnot"
             -> [gpio |-> [g EXCEPT ![step.reg] = ClearBits(frame.tmp, bit)],
                 task |-> next, done |-> final, ret |-> ret]
        [] step.kind = "test"
             -> IF TestBits(g[step.reg], bit)
                THEN [gpio |-> g, task |-> TaskIdle, done |-> TRUE,
                      ret |-> EINVAL]
                ELSE [gpio |-> g, task |-> next, done |-> final, ret |-> ret]

(* The configurations a preempted call asks for: one for each path through *)
(* gpio_sifive_config.                                                     *)
PreemptFlags ==
  {NoFlags, OutputInverted, InputPullUpDoubleEdge, InputLevelHigh,
   InputLevelLow,
   [NoFlags EXCEPT !.GPIO_POL_INV = TRUE],
   [NoFlags EXCEPT !.GPIO_DIR_OUT = TRUE, !.GPIO_INT = TRUE],
   [NoFlags EXCEPT !.GPIO_INT = TRUE, !.GPIO_INT_EDGE = TRUE],
   [NoFlags EXCEPT !.GPIO_INT = TRUE, !.GPIO_INT_EDGE = TRUE,
                   !.GPIO_INT_ACTIVE_HIGH = TRUE]}

(* The thread enters gpio_sifive_config or gpio_sifive_write with valid    *)
(* arguments; start is the register block on entry.                        *)
TaskBegin(op, pin, flags, value) ==
  /\ Fresh
  /\ task' = [op |-> op, pin |-> pin, flags |-> flags, value |-> value,
              pc |-> 1, tmp |-> {}, start |-> gpio, preempted |-> FALSE]
  /\ last' = Call("task_begin", GPIO_ACCESS_BY_PIN, pin, flags, value,
                  ESUCCESS, NoValue, NoValue, <<>>)
  /\ UNCHANGED <<gpio, irq_enabled, cb, isr>>

(* The thread runs while no interrupt is being handled; last.out tells     *)
(* whether the call that returned was preempted.                           *)
TaskRun ==
  /\ task.op # "none" /\ isr.pc = "idle"
  /\ LET r == TaskStep(gpio, task)
     IN  /\ gpio' = r.gpio
         /\ task' = r.task
         /\ last' = IF r.done
                    THEN Call(task.op, GPIO_ACCESS_BY_PIN, task.pin,
                              task.flags, task.value, r.ret,
                              IF task.preempted THEN "preempted" ELSE NoValue,
                              NoValue, <<>>)
                    ELSE Call("task_step", GPIO_ACCESS_BY_PIN, task.pin,
                              task.flags, task.value, ESUCCESS, NoValue,
                              NoValue, <<>>)
  /\ UNCHANGED <<irq_enabled, cb, isr>>

(* An interrupt is taken between two register accesses of the call.        *)
Preempt(irq) ==
  /\ task.op # "none" /\ ~task.preempted
  /\ isr.pc = "idle"
  /\ isr' = IsrIdentify(cb, irq)
  /\ task' = [task EXCEPT !.preempted = TRUE]
  /\ last' = Call("isr_enter", GPIO_ACCESS_BY_PIN, PinOf(IrqPinMask(irq)),
                  NoFlags, 0, ESUCCESS, NoValue, NoValue, <<>>)
  /\ UNCHANGED <<gpio, irq_enabled, cb>>

(* The hardware sets a pending bit between two steps of the handler.       *)
HwDuring(reg, pin) ==
  /\ last.op \in {"isr_enter", "isr_callback"}
  /\ HwPending(reg, pin)

(* Every pin configured alike before the call, pending bits all clear or   *)
(* all set, one callback registered for pin 0.                             *)
InitPreempt ==
  /\ gpio \in {ConfigureAll(gpio_sifive_init(OtherRegs(bits)), 0,
                             [pin \in Pins |-> history]) :
                  bits \in {{}, Pins}, history \in PinHistories}
  /\ irq_enabled = IrqLines
  /\ cb = RegisterAll(<<>>, 1)
  /\ isr = IsrIdle
  /\ task = TaskIdle
  /\ last = Call("init", GPIO_ACCESS_BY_PIN, 0, NoFlags, 0, ESUCCESS, NoValue,
                 NoValue, <<>>)

NextPreempt ==
  \/ \E pin \in Pins, flags \in PreemptFlags :
       TaskBegin("config", pin, flags, 0)
  \/ \E pin \in Pins, value \in 0 .. MaxValue :
       TaskBegin("write", pin, NoFlags, value)
  \/ TaskRun
  \/ \E irq \in PlicIrqs : Preempt(irq)
  \/ \E reg \in PendingRegs, pin \in Pins : HwDuring(reg, pin)
  \/ IsrRun

SpecPreempt == InitPreempt /\ [][NextPreempt]_vars

(* ---------------------------------------------------------------------- *)
(* Vocabulary of the properties                                            *)
(* ---------------------------------------------------------------------- *)
Bit(reg, pin) == IF pin \in reg THEN 1 ELSE 0

(* The bits of one pin that gpio_sifive_config programs.                   *)
PinConfigBits(g, pin) ==
  [in_en |-> Bit(g.in_en, pin), out_en |-> Bit(g.out_en, pin),
   pue |-> Bit(g.pue, pin), invert |-> Bit(g.invert, pin),
   rise_ie |-> Bit(g.rise_ie, pin), fall_ie |-> Bit(g.fall_ie, pin),
   high_ie |-> Bit(g.high_ie, pin), low_ie |-> Bit(g.low_ie, pin)]

(* (rise_ie, fall_ie, high_ie, low_ie) of one pin.                         *)
TriggerBits(g, pin) ==
  <<Bit(g.rise_ie, pin), Bit(g.fall_ie, pin), Bit(g.high_ie, pin),
    Bit(g.low_ie, pin)>>

(* The last call was gpio_sifive_config on a valid pin, by pin.            *)
ConfiguredPin(l) ==
  l.op = "config" /\ l.access_op = GPIO_ACCESS_BY_PIN /\ l.pin \in Pins

(* ---------------------------------------------------------------------- *)
(* C1: configure with input direction and polarity-invert returns the      *)
(* error and leaves in_en, out_en, pue, invert and the four interrupt-     *)
(* enable bits of the pin as they were before the call.                    *)
(* ---------------------------------------------------------------------- *)
C1_InvertOnInputLeavesPin ==
  [][(/\ ConfiguredPin(last')
      /\ ~last'.flags.GPIO_DIR_OUT
      /\ last'.flags.GPIO_POL_INV)
     => (/\ last'.ret = EINVAL
         /\ PinConfigBits(gpio', last'.pin) = PinConfigBits(gpio, last'.pin))]_vars

(* ---------------------------------------------------------------------- *)
(* C2: configure with the interrupt flag and output direction returns the  *)
(* error and leaves in_en, out_en, invert, pue and the four interrupt-     *)
(* enable registers as they were before the call.                          *)
(* ---------------------------------------------------------------------- *)
C2_InterruptOnOutputLeavesRegs ==
  [][(/\ ConfiguredPin(last')
      /\ last'.flags.GPIO_DIR_OUT
      /\ last'.flags.GPIO_INT)
     => (/\ last'.ret = EINVAL
         /\ gpio'.in_en = gpio.in_en /\ gpio'.out_en = gpio.out_en
         /\ gpio'.invert = gpio.invert /\ gpio'.pue = gpio.pue
         /\ gpio'.rise_ie = gpio.rise_ie /\ gpio'.fall_ie = gpio.fall_ie
         /\ gpio'.high_ie = gpio.high_ie /\ gpio'.low_ie = gpio.low_ie)]_vars

(* ---------------------------------------------------------------------- *)
(* C3 as stated: configure on a valid pin with pull mode pull-down returns *)
(* the error, whatever the direction.                                      *)
(* ---------------------------------------------------------------------- *)
C3_PullDownAlwaysRejected ==
  (ConfiguredPin(last) /\ last.flags.GPIO_PUD = GPIO_PUD_PULL_DOWN)
    => last.ret = EINVAL

(* C3 amended: configure on a valid pin with pull mode pull-down returns   *)
(* the error when the direction is input; with output direction the pull   *)
(* mode is not looked at, and the call succeeds unless the interrupt flag  *)
(* is set.                                                                 *)
C3_PullDownRejectedOnInput ==
  (ConfiguredPin(last) /\ last.flags.GPIO_PUD = GPIO_PUD_PULL_DOWN)
    => last.ret = IF ~last.flags.GPIO_DIR_OUT \/ last.flags.GPIO_INT
                  THEN EINVAL ELSE ESUCCESS

(* An input pull-down request without polarity-invert was rejected.        *)
C3_Witness ==
  /\ ConfiguredPin(last)
  /\ last.flags.GPIO_PUD = GPIO_PUD_PULL_DOWN
  /\ ~last.flags.GPIO_DIR_OUT
  /\ ~last.flags.GPIO_POL_INV
  /\ last.ret = EINVAL
  /\ last.pin \in gpio.in_en

(* ---------------------------------------------------------------------- *)
(* C4: no pin has both its input-enable and its output-enable bit set, and *)
(* after a successful configure exactly one is set: out_en alone for       *)
(* output direction, in_en alone for input direction.                      *)
(* ---------------------------------------------------------------------- *)
C4_DirectionExclusive ==
  /\ \A pin \in Pins : ~(pin \in gpio.in_en /\ pin \in gpio.out_en)
  /\ (ConfiguredPin(last) /\ last.ret = ESUCCESS)
       => IF last.flags.GPIO_DIR_OUT
          THEN last.pin \notin gpio.in_en /\ last.pin \in gpio.out_en
          ELSE last.pin \notin gpio.out_en /\ last.pin \in gpio.in_en

(* A pin was successfully configured as output while another is an input.  *)
C4_Witness ==
  /\ ConfiguredPin(last) /\ last.ret = ESUCCESS /\ last.flags.GPIO_DIR_OUT
  /\ last.pin \in gpio.out_en
  /\ \E other \in Pins \ {last.pin} : other \in gpio.in_en

(* ---------------------------------------------------------------------- *)
(* C5: no pin has an edge interrupt-enable bit (rise_ie, fall_ie) set      *)
(* together with a level interrupt-enable bit (high_ie, low_ie); an edge-  *)
(* trigger configure leaves the pin's level bits clear and a level-trigger *)
(* configure leaves its edge bits clear.                                   *)
(* ---------------------------------------------------------------------- *)
EdgeArmed(g, pin) == pin \in g.rise_ie \/ pin \in g.fall_ie
LevelArmed(g, pin) == pin \in g.high_ie \/ pin \in g.low_ie

C5_EdgeLevelExclusive ==
  /\ \A pin \in Pins : ~(EdgeArmed(gpio, pin) /\ LevelArmed(gpio, pin))
  /\ (ConfiguredPin(last) /\ last.ret = ESUCCESS /\ last.flags.GPIO_INT)
       => IF last.flags.GPIO_INT_EDGE
          THEN ~LevelArmed(gpio, last.pin)
          ELSE ~EdgeArmed(gpio, last.pin)

(* An edge trigger was configured on one pin while another pin has a level *)
(* trigger.                                                                *)
C5_Witness ==
  /\ ConfiguredPin(last) /\ last.ret = ESUCCESS
  /\ last.flags.GPIO_INT /\ last.flags.GPIO_INT_EDGE
  /\ EdgeArmed(gpio, last.pin)
  /\ \E other \in Pins \ {last.pin} : LevelArmed(gpio, other)

(* ---------------------------------------------------------------------- *)
(* C6 as stated: at most one of the four interrupt-enable bits is set for  *)
(* any pin.                                                                *)
(* ---------------------------------------------------------------------- *)
ArmedCount(g, pin) ==
  Bit(g.rise_ie, pin) + Bit(g.fall_ie, pin) + Bit(g.high_ie, pin)
    + Bit(g.low_ie, pin)

C6_AtMostOneArmed == \A pin \in Pins : ArmedCount(gpio, pin) <= 1

(* C6 amended: at most one of the four interrupt-enable bits is set for    *)
(* any pin, except that a pin configured double-edge has both rise_ie and  *)
(* fall_ie set, and then neither level bit.                                *)
C6_OneArmedOrDoubleEdge ==
  \A pin \in Pins :
    \/ ArmedCount(gpio, pin) <= 1
    \/ TriggerBits(gpio, pin) = <<1, 1, 0, 0>>

(* A double-edge configuration left rise_ie and fall_ie both set.          *)
C6_Witness ==
  /\ ConfiguredPin(last) /\ last.ret = ESUCCESS
  /\ last.flags.GPIO_INT /\ last.flags.GPIO_INT_EDGE
  /\ last.flags.GPIO_INT_DOUBLE_EDGE
  /\ ArmedCount(gpio, last.pin) = 2

(* ---------------------------------------------------------------------- *)
(* C7: after a successful configure with input direction and the interrupt *)
(* flag, (rise_ie, fall_ie, high_ie, low_ie) of the pin is (1,1,0,0) for   *)
(* edge + double-edge, (1,0,0,0) for edge + active-high, (0,1,0,0) for     *)
(* edge + active-low, (0,0,1,0) for level + active-high and (0,0,0,1) for  *)
(* level + active-low.                                                     *)
(* ---------------------------------------------------------------------- *)
TriggerTable(flags) ==
  IF flags.GPIO_INT_EDGE
  THEN IF flags.GPIO_INT_DOUBLE_EDGE THEN <<1, 1, 0, 0>>
       ELSE IF flags.GPIO_INT_ACTIVE_HIGH THEN <<1, 0, 0, 0>>
       ELSE <<0, 1, 0, 0>>
  ELSE IF flags.GPIO_INT_ACTIVE_HIGH THEN <<0, 0, 1, 0>>
       ELSE <<0, 0, 0, 1>>

C7_TriggerTable ==
  (/\ ConfiguredPin(last) /\ last.ret = ESUCCESS
   /\ ~last.flags.GPIO_DIR_OUT /\ last.flags.GPIO_INT)
    => TriggerBits(gpio, last.pin) = TriggerTable(last.flags)

(* A falling-edge configuration succeeded on a pin while another pin is    *)
(* armed for a level.                                                      *)
C7_Witness ==
  /\ ConfiguredPin(last) /\ last.ret = ESUCCESS
  /\ ~last.flags.GPIO_DIR_OUT /\ last.flags.GPIO_INT
  /\ last.flags.GPIO_INT_EDGE /\ ~last.flags.GPIO_INT_DOUBLE_EDGE
  /\ ~last.flags.GPIO_INT_ACTIVE_HIGH
  /\ TriggerBits(gpio, last.pin) = <<0, 1, 0, 0>>
  /\ \E other \in Pins \ {last.pin} : other \in gpio.high_ie

(* ---------------------------------------------------------------------- *)
(* C8: write on a pin whose input-enable bit is set returns the error and  *)
(* leaves the register block as it was; on any other valid pin it succeeds *)
(* and makes out_val[pin] equal to (value != 0), changing no other bit of  *)
(* out_val and no other register.                                          *)
(* ---------------------------------------------------------------------- *)
RegNames == DOMAIN ZeroRegs

WrotePin(l) ==
  l.op = "write" /\ l.access_op = GPIO_ACCESS_BY_PIN /\ l.pin \in Pins

C8_WriteContract ==
  [][WrotePin(last')
     => IF last'.pin \in gpio.in_en
        THEN last'.ret = EINVAL /\ gpio' = gpio
        ELSE /\ last'.ret = ESUCCESS
             /\ Bit(gpio'.out_val, last'.pin)
                  = (IF last'.value # 0 THEN 1 ELSE 0)
             /\ \A other \in Pins \ {last'.pin} :
                  Bit(gpio'.out_val, other) = Bit(gpio.out_val, other)
             /\ \A reg \in RegNames \ {"out_val"} : gpio'[reg] = gpio[reg]
             /\ irq_enabled' = irq_enabled]_vars

(* A write of 0 was rejected on an input pin whose output-value bit is 1.  *)
C8_Witness ==
  /\ WrotePin(last) /\ last.ret = EINVAL /\ last.value = 0
  /\ last.pin \in gpio.in_en
  /\ last.pin \in gpio.out_val

(* ---------------------------------------------------------------------- *)
(* C9: read on a valid pin succeeds and returns the pin's output-value bit *)
(* when its output-enable bit is set and its input-value bit otherwise,    *)
(* and changes no register.                                                *)
(* ---------------------------------------------------------------------- *)
ReadPin(l) ==
  l.op = "read" /\ l.access_op = GPIO_ACCESS_BY_PIN /\ l.pin \in Pins

C9_ReadContract ==
  [][ReadPin(last')
     => /\ last'.ret = ESUCCESS
        /\ last'.out = IF last'.pin \in gpio.out_en
                       THEN Bit(gpio.out_val, last'.pin)
                       ELSE Bit(gpio.in_val, last'.pin)
        /\ gpio' = gpio
        /\ irq_enabled' = irq_enabled]_vars

(* A read of a pin that is not an output returned 0, its input-value bit,  *)
(* while its output-value bit is 1.                                        *)
C9_Witness ==
  /\ ReadPin(last) /\ last.ret = ESUCCESS /\ last.out = 0
  /\ last.pin \notin gpio.out_en
  /\ last.pin \notin gpio.in_val
  /\ last.pin \in gpio.out_val

(* ---------------------------------------------------------------------- *)
(* C10: a dispatch for pin p clears bit p of the first register, in the    *)
(* order rise_ip, fall_ip, high_ip, low_ip, that has bit p set, and leaves *)
(* every other bit of the register block as it was; with no pending bit of *)
(* p set it writes no register.                                            *)
(* ---------------------------------------------------------------------- *)
FirstPending(g, pin) ==
  IF pin \in g.rise_ip THEN "rise_ip"
  ELSE IF pin \in g.fall_ip THEN "fall_ip"
  ELSE IF pin \in g.high_ip THEN "high_ip"
  ELSE IF pin \in g.low_ip THEN "low_ip"
  ELSE NoValue

C10_AckClearsFirstPending ==
  [][last'.op = "irq"
     => LET first == FirstPending(gpio, last'.pin)
        IN  /\ last'.acked = first
            /\ IF first = NoValue
               THEN gpio' = gpio
               ELSE /\ gpio'[first] = gpio[first] \ {last'.pin}
                    /\ \A reg \in RegNames \ {first} : gpio'[reg] = gpio[reg]]_vars

(* A dispatch acknowledged rise_ip for its pin; the pin's fall-pending bit *)
(* and another pin's rise-pending bit are still set.                       *)
C10_Witness ==
  /\ last.op = "irq" /\ last.acked = "rise_ip"
  /\ last.pin \notin gpio.rise_ip
  /\ last.pin \in gpio.fall_ip
  /\ \E other \in Pins \ {last.pin} : other \in gpio.rise_ip

(* ---------------------------------------------------------------------- *)
(* C11: one dispatch for pin p invokes every registered callback whose     *)
(* mask has bit p set exactly once, with the single-bit mask of p, and no  *)
(* callback whose mask does not have bit p; a callback that is not         *)
(* registered at the dispatch is not invoked.                              *)
(* ---------------------------------------------------------------------- *)
Invocations(fired, handler) ==
  Cardinality({i \in 1 .. Len(fired) : fired[i].handler = handler})

Registered(list, handler) ==
  {i \in 1 .. Len(list) : list[i].handler = handler}

C11_CallbackRouting ==
  last.op = "irq"
    => /\ \A i \in 1 .. Len(last.fired) : last.fired[i].pins = {last.pin}
       /\ \A handler \in 1 .. NumHandlers :
            Invocations(last.fired, handler)
              = IF \E i \in Registered(cb, handler) : last.pin \in cb[i].pin_mask
                THEN 1 ELSE 0

(* A dispatch invoked one of two registered callbacks: the masks of both   *)
(* overlap, and only one has the pin that fired.                           *)
C11_Witness ==
  /\ last.op = "irq"
  /\ Len(cb) = 2
  /\ cb[1].pin_mask \cap cb[2].pin_mask # {}
  /\ Len(last.fired) = 1

(* ---------------------------------------------------------------------- *)
(* C12: configure(p, flags), successful or not, changes no bit of a pin    *)
(* other than p in any register, and no bit at all of in_val, out_val, ds, *)
(* iof_en, iof_sel and the four pending registers.                         *)
(* ---------------------------------------------------------------------- *)
UnconfiguredRegs ==
  {"in_val", "out_val", "ds", "iof_en", "iof_sel", "rise_ip", "fall_ip",
   "high_ip", "low_ip"}

C12_ConfigFrame ==
  [][last'.op = "config"
     => /\ \A reg \in RegNames : \A other \in Pins \ {last'.pin} :
             Bit(gpio'[reg], other) = Bit(gpio[reg], other)
        /\ \A reg \in UnconfiguredRegs : gpio'[reg] = gpio[reg]]_vars

(* A pull-up, double-edge input configuration succeeded on a pin whose     *)
(* pending and value bits are set, beside a pin that is an inverted output *)
(* with pull-up and edge bits of its own.                                  *)
C12_Witness ==
  /\ ConfiguredPin(last) /\ last.ret = ESUCCESS
  /\ last.flags = InputPullUpDoubleEdge
  /\ TriggerBits(gpio, last.pin) = <<1, 1, 0, 0>>
  /\ last.pin \in gpio.rise_ip /\ last.pin \in gpio.out_val
  /\ \E other \in Pins \ {last.pin} :
       other \in gpio.out_en /\ other \in gpio.invert /\ other \in gpio.pue

(* ---------------------------------------------------------------------- *)
(* C13: configure never changes the mask state of an interrupt line;       *)
(* enable_source(pin) / disable_source(pin) on a valid pin unmask / mask   *)
(* the line irq_base + pin, leave every other line as it was and change no *)
(* bit of the register block.                                              *)
(* ---------------------------------------------------------------------- *)
SourcePin(l) ==
  /\ l.op \in {"enable_callback", "disable_callback"}
  /\ l.access_op = GPIO_ACCESS_BY_PIN /\ l.pin \in Pins

C13_SourceSeparateFromTrigger ==
  [][/\ last'.op = "config" => irq_enabled' = irq_enabled
     /\ SourcePin(last')
          => /\ last'.ret = ESUCCESS
             /\ (gpio_irq_base + last'.pin \in irq_enabled')
                  <=> (last'.op = "enable_callback")
             /\ \A line \in (irq_enabled \cup irq_enabled')
                              \ {gpio_irq_base + last'.pin} :
                  line \in irq_enabled /\ line \in irq_enabled'
             /\ gpio' = gpio]_vars

(* The line of a pin armed for both edges was unmasked while the line of   *)
(* another pin stays masked.                                               *)
C13_Witness ==
  /\ SourcePin(last) /\ last.op = "enable_callback"
  /\ gpio_irq_base + last.pin \in irq_enabled
  /\ last.pin \in gpio.rise_ie /\ last.pin \in gpio.fall_ie
  /\ \E other \in Pins \ {last.pin} : gpio_irq_base + other \notin irq_enabled

(* ---------------------------------------------------------------------- *)
(* C14: configure, write, read, enable_source and disable_source return    *)
(* OutOfRange (-EINVAL) for per-pin addressing with pin >= PIN_COUNT and   *)
(* Unsupported (-ENOTSUP) for any other addressing mode; in both cases no  *)
(* register bit and no line's mask state changes, and read produces no     *)
(* value.                                                                  *)
(* ---------------------------------------------------------------------- *)
ApiOps == {"config", "write", "read", "enable_callback", "disable_callback"}

BadArguments(l) ==
  l.op \in ApiOps /\ (l.access_op # GPIO_ACCESS_BY_PIN \/ l.pin >= PIN_COUNT)

C14_InputValidation ==
  [][BadArguments(last')
     => /\ last'.ret = IF last'.access_op # GPIO_ACCESS_BY_PIN
                       THEN ENOTSUP ELSE EINVAL
        /\ gpio' = gpio
        /\ irq_enabled' = irq_enabled
        /\ last'.out = NoValue]_vars

(* A write to the pin just beyond the last was rejected as out of range.   *)
C14_Witness ==
  /\ last.op = "write" /\ last.access_op = GPIO_ACCESS_BY_PIN
  /\ last.pin = PIN_COUNT /\ last.value # 0
  /\ last.ret = EINVAL
  /\ gpio.out_val = {}

(* ---------------------------------------------------------------------- *)
(* C15: after init and before any other operation every pin's bit is 0 in  *)
(* in_en, out_en, pue, rise_ie, fall_ie, high_ie, low_ie and invert,       *)
(* whatever those registers held before init.                              *)
(* ---------------------------------------------------------------------- *)
C15_InitZeroes ==
  last.op # "boot" => \A reg \in InitRegs : gpio[reg] = {}

(* Init found all eight registers non-zero and out_val still holds what it *)
(* held at boot.                                                           *)
C15_Witness ==
  /\ last.op = "init" /\ last.value = Cardinality(InitRegs)
  /\ gpio.out_val = Pins
  /\ \A reg \in InitRegs : gpio[reg] = {}

(* ---------------------------------------------------------------------- *)
(* C16: within one dispatch the steps are identify pin, then every         *)
(* matching callback, then acknowledge; no pending register is written     *)
(* before the last matching callback returned, the acknowledge decision    *)
(* reads the pending registers as they are after the callbacks, and at     *)
(* most one pending register is written per dispatch.                      *)
(* ---------------------------------------------------------------------- *)
IsrOps == {"isr_enter", "isr_callback", "isr_ack"}

PendingOf(g) == [reg \in PendingRegs |-> g[reg]]

C16_DispatchOrder ==
  [][last'.op \in IsrOps
     => /\ last'.op = "isr_enter"
             <=> (isr.pc = "idle" /\ isr'.pc = "fire" /\ isr'.fired = <<>>)
        /\ last'.op = "isr_callback"
             => /\ isr.pc = "fire" /\ isr'.pc = "fire"
                /\ Len(isr'.fired) = Len(isr.fired) + 1
        /\ last'.op # "isr_ack"
             => PendingOf(gpio') = PendingOf(gpio) /\ isr'.writes = 0
        /\ last'.op = "isr_ack"
             => /\ isr.pc = "fire" /\ isr'.pc = "idle"
                /\ last'.fired = gpio_fire_callbacks(cb, isr.pin_mask)
                /\ last'.acked = FirstPending(gpio, last'.pin)
                /\ last'.value = IF last'.acked = NoValue THEN 0 ELSE 1
                /\ \A reg \in PendingRegs \ {last'.acked} :
                     gpio'[reg] = gpio[reg]]_vars

(* A dispatch called two callbacks and then acknowledged the rise pending  *)
(* bit of its pin, while a pending bit of another pin stays set.           *)
C16_Witness ==
  /\ last.op = "isr_ack" /\ Len(last.fired) = 2
  /\ last.acked = "rise_ip" /\ last.value = 1
  /\ \E other \in Pins \ {last.pin} : other \in gpio.rise_ip

(* ---------------------------------------------------------------------- *)
(* C17: when the hardware sets a pending bit only for a class the pin is   *)
(* armed for, then whenever a dispatch for pin p acknowledges, exactly one *)
(* of rise_ip, fall_ip, high_ip, low_ip has bit p set.                     *)
(* ---------------------------------------------------------------------- *)
PendingSet(g, pin) == {reg \in PendingRegs : pin \in g[reg]}

ArmedSet(g, pin) == {reg \in PendingRegs : pin \in g[IeOf(reg)]}

C17_ExactlyOnePending ==
  [][last'.op = "isr_ack"
     => Cardinality(PendingSet(gpio, last'.pin)) = 1]_vars

(* C17, as the code has it: at the acknowledge at least one pending bit of *)
(* p is set; when every set bit belongs to a class p is armed for now,     *)
(* they are one bit, or rise_ip and fall_ip of a pin armed for both edges. *)
C17_PendingAmongArmed ==
  [][last'.op = "isr_ack"
     => LET set == PendingSet(gpio, last'.pin)
        IN  /\ set # {}
            /\ set \subseteq ArmedSet(gpio, last'.pin)
                 => \/ Cardinality(set) = 1
                    \/ set = {"rise_ip", "fall_ip"}]_vars

(* A dispatch for a pin armed for both edges acknowledged rise_ip and left *)
(* fall_ip set.                                                            *)
C17_Witness ==
  /\ last.op = "isr_ack" /\ last.acked = "rise_ip"
  /\ PendingSet(gpio, last.pin) = {"fall_ip"}
  /\ ArmedSet(gpio, last.pin) = {"rise_ip", "fall_ip"}

(* ---------------------------------------------------------------------- *)
(* C18: the handler writes only pending registers and configure and write  *)
(* never write one; when a dispatch preempts configure or write between    *)
(* two register accesses, in_en, out_en, pue, invert, out_val and the four *)
(* interrupt-enable registers end as they do without the dispatch; and the *)
(* acknowledge clears no pending bit of another pin.                       *)
(* ---------------------------------------------------------------------- *)
TaskRegs ==
  {"in_en", "out_en", "pue", "invert", "out_val", "rise_ie", "fall_ie",
   "high_ie", "low_ie"}

(* The call of the frame, made in one piece from the registers on entry.   *)
Unpreempted(frame) ==
  IF frame.op = "config"
  THEN gpio_sifive_config(frame.start, GPIO_ACCESS_BY_PIN, frame.pin,
                          frame.flags)
  ELSE gpio_sifive_write(frame.start, GPIO_ACCESS_BY_PIN, frame.pin,
                         frame.value)

C18_PreemptionSafe ==
  [][/\ last'.op \in IsrOps
          => \A reg \in RegNames \ PendingRegs : gpio'[reg] = gpio[reg]
     /\ last'.op \in {"task_begin", "task_step", "config", "write"}
          => PendingOf(gpio') = PendingOf(gpio)
     /\ (task.op # "none" /\ task'.op = "none")
          => /\ \A reg \in TaskRegs : gpio'[reg] = Unpreempted(task).gpio[reg]
             /\ last'.ret = Unpreempted(task).ret
     /\ last'.op = "isr_ack"
          => \A reg \in PendingRegs :
               gpio[reg] \ {last'.pin} \subseteq gpio'[reg]]_vars

(* A configure for both edges with pull-up returned after a dispatch       *)
(* preempted it; the pin is armed for both edges, and a pending bit is     *)
(* set that was clear when the call began.                                 *)
C18_Witness ==
  /\ last.op = "config" /\ last.out = "preempted" /\ last.ret = ESUCCESS
  /\ last.flags = InputPullUpDoubleEdge
  /\ TriggerBits(gpio, last.pin) = <<1, 1, 0, 0>>
  /\ last.pin \in gpio.pue /\ last.pin \notin gpio.invert
  /\ \E other \in Pins \ {last.pin} : other \in gpio.rise_ip
  /\ gpio.out_val = {}

(* ---------------------------------------------------------------------- *)
(* C19: with k pending bits of pin p set and no further one set by the     *)
(* hardware, one dispatch clears the first of them in the order rise,      *)
(* fall, high, low and leaves the other k-1 set, so that repeated firings  *)
(* clear them all, one per dispatch, in that order.                        *)
(* ---------------------------------------------------------------------- *)
C19_OnePerDispatch ==
  [][last'.op = "isr_ack"
     => LET before == PendingSet(gpio, last'.pin)
            after == PendingSet(gpio', last'.pin)
        IN  /\ before # {}
            /\ last'.acked = FirstPending(gpio, last'.pin)
            /\ after = before \ {last'.acked}
            /\ Cardinality(after) = Cardinality(before) - 1
            /\ \A other \in Pins \ {last'.pin} :
                 PendingSet(gpio', other) = PendingSet(gpio, other)]_vars

C19_Drained ==
  \A pin \in Pins :
    (PendingSet(gpio, pin) # {}) ~> (PendingSet(gpio, pin) = {})

C19_DrainOnePerFiring == C19_OnePerDispatch /\ C19_Drained

(* The fourth dispatch for a pin that had all four pending bits set has    *)
(* acknowledged low_ip, the last of them.                                  *)
C19_Witness ==
  /\ last.op = "isr_ack" /\ last.acked = "low_ip"
  /\ PendingSet(gpio, last.pin) = {}
  /\ \E other \in Pins \ {last.pin} : PendingSet(gpio, other) = PendingRegs

(* ---------------------------------------------------------------------- *)
(* C20: a successful configure without the interrupt flag leaves the four  *)
(* interrupt-enable bits of the pin as they were; a pin armed as an        *)
(* interrupt input and then configured as output keeps its trigger bits    *)
(* while its output-enable bit is set.                                     *)
(* ---------------------------------------------------------------------- *)
C20_TriggerKeptWithoutInt ==
  [][(ConfiguredPin(last') /\ last'.ret = ESUCCESS /\ ~last'.flags.GPIO_INT)
     => TriggerBits(gpio', last'.pin) = TriggerBits(gpio, last'.pin)]_vars

(* A pin armed for the high level was configured as output without the     *)
(* interrupt flag and still has high_ie set.                               *)
C20_Witness ==
  /\ ConfiguredPin(last) /\ last.ret = ESUCCESS
  /\ last.flags.GPIO_DIR_OUT /\ ~last.flags.GPIO_INT
  /\ last.pin \in gpio.out_en
  /\ TriggerBits(gpio, last.pin) = <<0, 0, 1, 0>>

====
